---- MODULE Spec2Model ----
(***************************************************************************)
(* Model of monitor.py: the polling loop of the Ethereum transfer monitor  *)
(* (seeding / steady change detection per channel, the bounded seen sets   *)
(* and the Aave block cursor), with the explorer as the environment.       *)
(*                                                                         *)
(* Sizes are scaled: the page sizes of the two list queries and            *)
(* MAX_SEEN_HASHES keep their order (transfer page <= log page <=          *)
(* MAX_SEEN_HASHES) but are small numbers, so that the reset branch of the *)
(* seen sets is reached.                                                   *)
(***************************************************************************)
EXTENDS Integers, Sequences, FiniteSets, TLC

VARIABLES
    pc,               \* position of monitor(): "start", a channel, "end", "sleep", "stopped", "crashed"
    watch_aave,       \* the watch_aave argument of monitor()
    first_run,        \* monitor.first_run
    seen,             \* monitor.seen: transfer type -> set of hashes
    aave_seen,        \* monitor.aave_seen
    aave_from_block,  \* monitor.aave_from_block
    chan,             \* the channel the last poll step processed ("none" before any)
    fetched,          \* what the last poll step's fetch returned (transfers / logs)
    alerts,           \* the alerts the last poll step emitted, in emission order
    explorer,         \* environment: the live channels and the kind of records the explorer lists
    track,            \* history: the (channel, hash) pair followed, or NoTrack
    trackStartup,     \* history: the followed hash was in the explorer's first-round window
    trackAlerted,     \* history: the followed pair was alerted in an earlier step
    call              \* a call of decode_supply_event or format_token_amount: arguments and result

vars == <<pc, watch_aave, first_run, seen, aave_seen, aave_from_block,
          chan, fetched, alerts, explorer, track, trackStartup, trackAlerted,
          call>>

env == <<watch_aave, explorer, track, call>>

----------------------------------------------------------------------------
(* Bounds of the environment *)

NumHashes == 3
MaxBlock == 2
MaxLive == 1
MaxRawLen == 4
MaxDecimals == 8
MaxData == 132

(* Program constants (scaled) *)
MAX_SEEN_HASHES == 2
TRANSFER_OFFSET == 2
LOGS_OFFSET == 2
AAVE_LOOKBACK_BLOCKS == 1

TRANSFER_TYPES == <<"ETH", "TOKEN", "NFT">>
TransferTypes == {TRANSFER_TYPES[i] : i \in DOMAIN TRANSFER_TYPES}
Channels == TransferTypes \cup {"AAVE"}

HashNames == <<"A", "B", "C", "D", "E", "F">>
Hashes == {HashNames[i] : i \in 1..NumHashes}

(* Strings the code inspects character by character are tuples of          *)
(* one-character strings.                                                  *)
address == <<"A", "b">>
ToValues == {<<"a", "B">>, <<"a", "c">>}

LowerChar(c) ==
    CASE c = "A" -> "a"
      [] c = "B" -> "b"
      [] c = "C" -> "c"
      [] OTHER -> c

lower(s) == [i \in DOMAIN s |-> LowerChar(s[i])]

Digits == <<"0", "1", "2", "3", "4", "5", "6", "7", "8", "9",
            "a", "b", "c", "d", "e", "f">>

DigitVal(c) == CHOOSE d \in 0..15 : Digits[d + 1] = c

RECURSIVE ParseInt(_, _)
\* int(s, base) on a digit string
ParseInt(s, base) ==
    IF Len(s) = 0 THEN 0
    ELSE ParseInt(SubSeq(s, 1, Len(s) - 1), base) * base + DigitVal(s[Len(s)])

HexStr(n) == <<Digits[n + 1]>>

----------------------------------------------------------------------------
(* Python values *)

None == [tag |-> "None", list |-> <<>>]
List(l) == [tag |-> "list", list |-> l]
Raised == [tag |-> "raise", list |-> <<>>]

RECURSIVE SeqsUpTo(_, _)
SeqsUpTo(S, n) ==
    IF n = 0 THEN {<<>>}
    ELSE LET shorter == SeqsUpTo(S, n - 1)
         IN  shorter \cup {Append(s, x) : s \in {t \in shorter : Len(t) = n - 1}, x \in S}

RECURSIVE Reversed(_)
Reversed(s) == IF Len(s) = 0 THEN <<>> ELSE Append(Reversed(Tail(s)), Head(s))

----------------------------------------------------------------------------
(* The explorer *)

\* Transfer records the explorer can list: the recipient is the monitored
\* address in another case or another address, failed or not, zero or not.
TxRecords ==
    {[hash |-> h, to |-> t, isError |-> e, value |-> v] :
        h \in Hashes, t \in ToValues, e \in {"0", "1"}, v \in {<<"0">>, <<"5">>}}

GoodTx(h) == [hash |-> h, to |-> <<"a", "B">>, isError |-> "0", value |-> <<"5">>]

\* The records of the monitor's runs: per hash a transfer that passes every
\* filter, and for the first hash also a failed one and one to another
\* recipient.
RunRecords ==
    {GoodTx(h) : h \in Hashes}
    \cup {[GoodTx(HashNames[1]) EXCEPT !.isError = "1"],
          [GoodTx(HashNames[1]) EXCEPT !.to = <<"a", "c">>]}

\* Logs: a transaction lies in one block; a log without a hash in any block.
BlockOf(h) == (CHOOSE i \in 1..NumHashes : HashNames[i] = h) % (MaxBlock + 1)

LogRecords ==
    {[transactionHash |-> h, blockNumber |-> HexStr(BlockOf(h))] : h \in Hashes}
    \cup {[transactionHash |-> "", blockNumber |-> HexStr(b)] : b \in 0..MaxBlock}

\* The records the explorer can list for a channel: none unless the channel
\* is live; for a transfer channel the records of the runs, or every
\* combination of the filtered fields on two hashes.
FilterRecords == {r \in TxRecords : r.hash \in {HashNames[1], HashNames[2]}}

Records(c) ==
    IF c \notin explorer.live THEN {}
    ELSE IF c = "AAVE" THEN LogRecords
    ELSE IF explorer.records = "all" THEN FilterRecords
    ELSE RunRecords

Faults == {"none", "network", "badjson", "apierror", "nonobject"}

\* The HTTP exchange of a list query: what requests.get / resp.json() give
\* when the explorer's window is w and the exchange suffers the fault.
Response(w, fault, emptyMessage) ==
    CASE fault = "network" -> [exc |-> "RequestException", json |-> "none"]
      [] fault = "badjson" -> [exc |-> "ValueError", json |-> "none"]
      [] fault = "nonobject" -> [exc |-> "none", json |-> "nonobject"]
      [] fault = "apierror" ->
            [exc |-> "none", json |-> "object", status |-> "0", message |-> "NOTOK", result |-> <<>>]
      [] OTHER ->
            IF Len(w) = 0
            THEN [exc |-> "none", json |-> "object", status |-> "0",
                  message |-> emptyMessage, result |-> <<>>]
            ELSE [exc |-> "none", json |-> "object", status |-> "1",
                  message |-> "OK", result |-> w]

fetch_transfers(resp) ==
    IF resp.exc \in {"RequestException", "ValueError", "KeyError"} THEN None
    ELSE IF resp.json # "object" THEN Raised
    ELSE IF resp.status # "1"
         THEN IF resp.message = "No transactions found" THEN List(<<>>) ELSE None
         ELSE List(resp.result)

fetch_aave_supply_logs(resp) ==
    IF resp.exc \in {"RequestException", "ValueError", "KeyError"} THEN None
    ELSE IF resp.json # "object" THEN Raised
    ELSE IF resp.status # "1"
         THEN IF resp.message \in {"No records found", "No transactions found"}
              THEN List(<<>>) ELSE None
         ELSE List(resp.result)

\* get_current_block: the block number, or None
BlockResults == {None, Raised} \cup {[tag |-> "int", list |-> <<b>>] : b \in 0..MaxBlock}

\* The windows a query can meet, one page of the channel's records.
Windows(c, page) == SeqsUpTo(Records(c), page)

\* The faults an exchange can suffer. What the explorer held matters when
\* the exchange succeeds, and in the first round for what was there at
\* startup: elsewhere a fault is taken with the empty window.
FaultsOn(w) == IF Len(w) = 0 \/ first_run THEN Faults ELSE {"none"}

----------------------------------------------------------------------------
(* filter_incoming *)

\* line 233
IsToAddress(tx) == lower(tx.to) = lower(address)
\* variant of IsGoodEth: the value is not looked at
IsGoodEthNoValue(tx) == tx.isError # "1"

\* line 238
IsGoodEth(tx) == tx.isError # "1" /\ ParseInt(tx.value, 10) > 0

filter_incoming(transfers, transfer_type) ==
    LET incoming == SelectSeq(transfers, IsToAddress)
    IN  IF transfer_type = "ETH" THEN SelectSeq(incoming, IsGoodEth) ELSE incoming

HashesOf(txs) == {txs[i].hash : i \in DOMAIN txs}
LogHashes(logs) == {logs[i].transactionHash : i \in DOMAIN logs}

----------------------------------------------------------------------------
(* One channel's round, lines 302-322 and 328-352 *)

\* variant of SeedTransfers: the first run adds nothing
SeedNothing(s, incoming) == s

\* lines 308-309
SeedTransfers(s, incoming) == s \cup HashesOf(incoming)

\* variant of SeedLogs: only the first log of the window is recorded
SeedFirstLog(s, logs) ==
    IF Len(logs) = 0 THEN s ELSE s \cup {logs[1].transactionHash}

\* lines 330-331
SeedLogs(s, logs) == s \cup LogHashes(logs)

RECURSIVE NewTransfersUnchecked(_, _)
\* variant of NewTransfers: no look-up in the seen set
NewTransfersUnchecked(incoming, s) ==
    IF Len(incoming) = 0 THEN [new |-> <<>>, seen |-> s]
    ELSE LET rest == NewTransfersUnchecked(Tail(incoming), s \cup {Head(incoming).hash})
         IN  [new |-> <<Head(incoming)>> \o rest.new, seen |-> rest.seen]

RECURSIVE NewTransfers(_, _)
\* lines 311-315: the new transfers, in query order, and the seen set after
NewTransfers(incoming, s) ==
    IF Len(incoming) = 0 THEN [new |-> <<>>, seen |-> s]
    ELSE LET tx == Head(incoming)
         IN  IF tx.hash \notin s
             THEN LET rest == NewTransfers(Tail(incoming), s \cup {tx.hash})
                  IN  [new |-> <<tx>> \o rest.new, seen |-> rest.seen]
             ELSE NewTransfers(Tail(incoming), s)

RECURSIVE NewEventsAnyHash(_, _)
\* variant of NewEvents: a log without a hash is taken as well
NewEventsAnyHash(logs, s) ==
    IF Len(logs) = 0 THEN [new |-> <<>>, seen |-> s]
    ELSE LET tx_hash == Head(logs).transactionHash
         IN  IF tx_hash \notin s
             THEN LET rest == NewEventsAnyHash(Tail(logs), s \cup {tx_hash})
                  IN  [new |-> <<Head(logs)>> \o rest.new, seen |-> rest.seen]
             ELSE NewEventsAnyHash(Tail(logs), s)

RECURSIVE NewEvents(_, _)
\* lines 333-338
NewEvents(logs, s) ==
    IF Len(logs) = 0 THEN [new |-> <<>>, seen |-> s]
    ELSE LET tx_hash == Head(logs).transactionHash
         IN  IF tx_hash # "" /\ tx_hash \notin s
             THEN LET rest == NewEvents(Tail(logs), s \cup {tx_hash})
                  IN  [new |-> <<Head(logs)>> \o rest.new, seen |-> rest.seen]
             ELSE NewEvents(Tail(logs), s)

\* variant of AlertOrder: alerts in query order
QueryOrder(new_transfers) == new_transfers

\* line 317
AlertOrder(new_transfers) == Reversed(new_transfers)

\* variant of TrimSeen: the set is never reset
NoTrim(s, incoming) == s

\* variant of TrimSeen: the set is reset when it reaches the bound
TrimSeenAtBound(s, incoming) ==
    IF Cardinality(s) >= MAX_SEEN_HASHES THEN HashesOf(incoming) ELSE s

\* lines 321-322
TrimSeen(s, incoming) ==
    IF Cardinality(s) > MAX_SEEN_HASHES THEN HashesOf(incoming) ELSE s

\* variant of TrimAaveSeen: the set is emptied at the bound
ClearAaveSeen(s, logs) ==
    IF Cardinality(s) > MAX_SEEN_HASHES THEN {} ELSE s

\* lines 351-352
TrimAaveSeen(s, logs) ==
    IF Cardinality(s) > MAX_SEEN_HASHES THEN LogHashes(logs) ELSE s

\* variant of AdvanceFromBlock: the block of the last log, unconditionally
LastBlock(from_block, logs) ==
    IF Len(logs) = 0 THEN from_block
    ELSE ParseInt(logs[Len(logs)].blockNumber, 16)

RECURSIVE AdvanceFromBlock(_, _)
\* lines 346-349
AdvanceFromBlock(from_block, logs) ==
    IF Len(logs) = 0 THEN from_block
    ELSE LET block_num == ParseInt(Head(logs).blockNumber, 16)
         IN  AdvanceFromBlock(IF block_num > from_block THEN block_num ELSE from_block,
                              Tail(logs))

\* print_transfer / play_alert, one per transfer
TransferAlerts(txs, transfer_type) ==
    [i \in DOMAIN txs |-> [kind |-> transfer_type, hash |-> txs[i].hash]]

\* print_supply_event / play_alert, one per log
SupplyAlerts(logs) ==
    [i \in DOMAIN logs |-> [kind |-> "AAVE", hash |-> logs[i].transactionHash]]

\* variant of RoundTransfers: a failed fetch empties the seen set
RoundTransfersClearOnFail(first, s, transfers, transfer_type) ==
    IF transfers.tag # "list" THEN [seen |-> {}, alerts |-> <<>>]
    ELSE LET incoming == filter_incoming(transfers.list, transfer_type)
             diff == NewTransfers(incoming, s)
         IN  [seen |-> TrimSeen(IF first THEN SeedTransfers(s, incoming) ELSE diff.seen,
                                incoming),
              alerts |-> IF first THEN <<>>
                         ELSE TransferAlerts(AlertOrder(diff.new), transfer_type)]

\* lines 302-322: the body of the for loop after the fetch
RoundTransfers(first, s, transfers, transfer_type) ==
    IF transfers.tag # "list" THEN [seen |-> s, alerts |-> <<>>]
    ELSE LET incoming == filter_incoming(transfers.list, transfer_type)
             diff == NewTransfers(incoming, s)
         IN  [seen |-> TrimSeen(IF first THEN SeedTransfers(s, incoming) ELSE diff.seen,
                                incoming),
              alerts |-> IF first THEN <<>>
                         ELSE TransferAlerts(AlertOrder(diff.new), transfer_type)]

\* lines 328-352: the Aave branch after the fetch
RoundAave(first, s, from_block, logs) ==
    IF logs.tag # "list" THEN [seen |-> s, alerts |-> <<>>, from_block |-> from_block]
    ELSE LET diff == NewEvents(logs.list, s)
         IN  [seen |-> TrimAaveSeen(IF first THEN SeedLogs(s, logs.list) ELSE diff.seen,
                                    logs.list),
              alerts |-> IF first THEN <<>> ELSE SupplyAlerts(diff.new),
              from_block |-> AdvanceFromBlock(from_block, logs.list)]

AlertedPairs(as) == {<<as[i].kind, as[i].hash>> : i \in DOMAIN as}

----------------------------------------------------------------------------
(* The monitor *)

\* variant of NextAfter: the Aave branch is entered whatever watch_aave is
NextAfterWithAave(c) ==
    CASE c = "ETH" -> "TOKEN"
      [] c = "TOKEN" -> "NFT"
      [] c = "NFT" -> "AAVE"
      [] OTHER -> "end"

\* lines 299 and 325: the order of the for loop, then the Aave branch if enabled
NextAfter(c) ==
    CASE c = "ETH" -> "TOKEN"
      [] c = "TOKEN" -> "NFT"
      [] c = "NFT" -> IF watch_aave THEN "AAVE" ELSE "end"
      [] OTHER -> "end"

NoTrack == <<"none", "">>

NoCall == [fn |-> "none"]

InitMonitor ==
    /\ pc = "start"
    /\ watch_aave \in BOOLEAN
    /\ first_run = TRUE
    /\ seen = [t \in TransferTypes |-> {}]
    /\ aave_seen = {}
    /\ aave_from_block = 0
    /\ chan = "none"
    /\ fetched = None
    /\ alerts = <<>>
    /\ trackStartup = FALSE
    /\ trackAlerted = FALSE
    /\ call = NoCall

Init ==
    /\ InitMonitor
    /\ explorer \in {[live |-> L, records |-> "run"] :
                        L \in {M \in SUBSET Channels : Cardinality(M) <= MaxLive}}
    /\ track = NoTrack

\* variant of InitialFromBlock: the lookback is subtracted without the floor at 0
InitialFromBlockUnclamped(from_block, block) ==
    IF block.tag = "int" THEN block.list[1] - AAVE_LOOKBACK_BLOCKS ELSE from_block

\* lines 285-286
InitialFromBlock(from_block, block) ==
    IF block.tag = "int"
    THEN (IF block.list[1] - AAVE_LOOKBACK_BLOCKS > 0
          THEN block.list[1] - AAVE_LOOKBACK_BLOCKS ELSE 0)
    ELSE from_block

\* lines 283-288; fetched holds what get_current_block returned
Start ==
    /\ pc = "start"
    /\ IF watch_aave
       THEN \E block \in BlockResults :
               /\ pc' = IF block = Raised THEN "crashed" ELSE "ETH"
               /\ fetched' = block
               /\ aave_from_block' = InitialFromBlock(aave_from_block, block)
       ELSE /\ pc' = "ETH"
            /\ UNCHANGED <<fetched, aave_from_block>>
    /\ UNCHANGED <<first_run, seen, aave_seen, chan, alerts,
                   trackStartup, trackAlerted, env>>

\* variant of UpdateSeen: one set shared by the transfer types
UpdateSharedSeen(seen_sets, transfer_type, s) == [t \in TransferTypes |-> s]

\* lines 309, 315, 322: seen[transfer_type] is the only set written
UpdateSeen(seen_sets, transfer_type, s) == [seen_sets EXCEPT ![transfer_type] = s]

\* history of the followed pair
Follow(c, present) ==
    /\ trackAlerted' = (trackAlerted \/ track \in AlertedPairs(alerts))
    /\ trackStartup' = IF first_run /\ track[1] = c THEN track[2] \in present
                       ELSE trackStartup

\* lines 299-322, one iteration of the for loop
PollTransfers ==
    /\ pc \in TransferTypes
    /\ \E w \in Windows(pc, TRANSFER_OFFSET) :
       \E fault \in FaultsOn(w) :
         LET transfer_type == pc
             transfers == fetch_transfers(Response(w, fault, "No transactions found"))
             round == RoundTransfers(first_run, seen[transfer_type], transfers,
                                     transfer_type)
         IN  /\ chan' = transfer_type
             /\ fetched' = transfers
             /\ Follow(transfer_type, HashesOf(filter_incoming(w, transfer_type)))
             /\ pc' = IF transfers = Raised THEN "crashed" ELSE NextAfter(transfer_type)
             /\ alerts' = round.alerts
             /\ seen' = UpdateSeen(seen, transfer_type, round.seen)
    /\ UNCHANGED <<first_run, aave_seen, aave_from_block, env>>

\* lines 325-352
PollAave ==
    /\ pc = "AAVE"
    /\ \E w \in Windows("AAVE", LOGS_OFFSET) :
       \E fault \in FaultsOn(w) :
         LET logs == fetch_aave_supply_logs(Response(w, fault, "No records found"))
             round == RoundAave(first_run, aave_seen, aave_from_block, logs)
         IN  /\ chan' = "AAVE"
             /\ fetched' = logs
             /\ Follow("AAVE", LogHashes(w))
             /\ pc' = IF logs = Raised THEN "crashed" ELSE "end"
             /\ alerts' = round.alerts
             /\ aave_seen' = round.seen
             /\ aave_from_block' = round.from_block
    /\ UNCHANGED <<first_run, seen, env>>

\* variant of AfterRound: the flag is toggled
ToggleRun(first) == ~first

\* lines 354-355
AfterRound(first) == IF first THEN FALSE ELSE first

\* lines 354-355, and the end of the loop body
EndRound ==
    /\ pc = "end"
    /\ pc' = "sleep"
    /\ first_run' = AfterRound(first_run)
    /\ chan' = "none"
    /\ fetched' = None
    /\ alerts' = <<>>
    /\ trackAlerted' = (trackAlerted \/ track \in AlertedPairs(alerts))
    /\ UNCHANGED <<seen, aave_seen, aave_from_block, trackStartup, env>>

\* lines 357-358
Sleep ==
    /\ pc = "sleep"
    /\ pc' = "ETH"
    /\ UNCHANGED <<first_run, seen, aave_seen, aave_from_block,
                   chan, fetched, alerts, trackStartup, trackAlerted, env>>

\* lines 359-360
Interrupt ==
    /\ pc = "sleep"
    /\ pc' = "stopped"
    /\ UNCHANGED <<first_run, seen, aave_seen, aave_from_block,
                   chan, fetched, alerts, trackStartup, trackAlerted, env>>

Next == Start \/ PollTransfers \/ PollAave \/ EndRound \/ Sleep \/ Interrupt

Spec == Init /\ [][Next]_vars

\* One live channel, and one hash of it followed through the run.
InitTrack ==
    /\ InitMonitor
    /\ track \in {<<c, HashNames[1]>> : c \in Channels}
    /\ explorer = [live |-> {track[1]}, records |-> "run"]

SpecTrack == InitTrack /\ [][Next]_vars

\* Two live channels: the same hashes can turn up in both.
InitPair ==
    /\ InitMonitor
    /\ track = NoTrack
    /\ explorer \in {[live |-> {c, d}, records |-> "run"] : c, d \in Channels} \
                        {[live |-> {c}, records |-> "run"] : c \in Channels}

SpecPair == InitPair /\ [][Next]_vars

\* One live transfer channel, every combination of the filtered fields.
InitFilter ==
    /\ InitMonitor
    /\ track = NoTrack
    /\ explorer \in {[live |-> {t}, records |-> "all"] : t \in TransferTypes}

SpecFilter == InitFilter /\ [][Next]_vars

----------------------------------------------------------------------------
(* format_token_amount, lines 45-54. A Decimal is its coefficient, a digit *)
(* string, and its exponent; the raw values drawn have fewer digits than   *)
(* the 28 of the default context, so the division is exact.                *)

DecimalDigits == {Digits[i] : i \in 1..10}

RECURSIVE IntStr(_)
\* str(n) of a non-negative int
IntStr(n) == IF n < 10 THEN <<Digits[n + 1]>> ELSE IntStr(n \div 10) \o <<Digits[(n % 10) + 1]>>

Zeros(n) == [i \in 1..n |-> "0"]

RECURSIVE StripLeadingZeros(_)
StripLeadingZeros(s) ==
    IF Len(s) > 1 /\ Head(s) = "0" THEN StripLeadingZeros(Tail(s)) ELSE s

RECURSIVE TrailingZeros(_)
\* the number of zeros a digit string ends in
TrailingZeros(s) ==
    IF Len(s) = 0 \/ s[Len(s)] # "0" THEN 0
    ELSE 1 + TrailingZeros(SubSeq(s, 1, Len(s) - 1))

DropLast(s, n) == SubSeq(s, 1, Len(s) - n)

IsZero(s) == \A i \in DOMAIN s : s[i] = "0"

\* line 48: int(token_decimal) succeeds on a non-empty string of decimal digits
IntParses(token_decimal) ==
    /\ token_decimal.tag = "str"
    /\ Len(token_decimal.list) > 0
    /\ \A i \in DOMAIN token_decimal.list : token_decimal.list[i] \in DecimalDigits

\* Decimal(raw_value) of a digit string
Decimal(raw_value) == [int |-> StripLeadingZeros(raw_value), exp |-> 0]

\* x / (Decimal(10) ** decimals), decimals > 0: the quotient is exact, and its
\* exponent is the nearest to the ideal exponent 0 that keeps it exact
DivPow10(x, decimals) ==
    IF IsZero(x.int) THEN [int |-> <<"0">>, exp |-> 0]
    ELSE LET k == TrailingZeros(x.int)
             drop == IF k < decimals THEN k ELSE decimals
         IN  [int |-> DropLast(x.int, drop), exp |-> drop - decimals]

\* Decimal.normalize(): every trailing zero of the coefficient goes to the exponent
normalize(x) ==
    IF IsZero(x.int) THEN [int |-> <<"0">>, exp |-> 0]
    ELSE LET k == TrailingZeros(x.int)
         IN  [int |-> DropLast(x.int, k), exp |-> x.exp + k]

\* "%+d" % n
SignedStr(n) == IF n < 0 THEN <<"-">> \o IntStr(0 - n) ELSE <<"+">> \o IntStr(n)

\* str(Decimal): positional notation when the exponent is at most 0 and the
\* number has no more than six zeros after the point, scientific otherwise
DecimalStr(x) ==
    LET n == Len(x.int)
        leftdigits == x.exp + n
        dotplace == IF x.exp <= 0 /\ leftdigits > 0 - 6 THEN leftdigits ELSE 1
        intpart == IF dotplace <= 0 THEN <<"0">>
                   ELSE IF dotplace >= n THEN x.int \o Zeros(dotplace - n)
                   ELSE SubSeq(x.int, 1, dotplace)
        fracpart == IF dotplace <= 0 THEN <<".">> \o Zeros(0 - dotplace) \o x.int
                    ELSE IF dotplace >= n THEN <<>>
                    ELSE <<".">> \o SubSeq(x.int, dotplace + 1, n)
        exppart == IF leftdigits = dotplace THEN <<>>
                   ELSE <<"E">> \o SignedStr(leftdigits - dotplace)
    IN  intpart \o fracpart \o exppart

format_token_amount(raw_value, token_decimal) ==
    LET decimals == IF IntParses(token_decimal) THEN ParseInt(token_decimal.list, 10)
                    ELSE 18
    IN  IF decimals = 0 THEN raw_value
        ELSE DecimalStr(normalize(DivPow10(Decimal(raw_value), decimals)))

Str(s) == [tag |-> "str", list |-> s]

\* The monitor is not running while a function is called on its own.
InitCall ==
    /\ pc = "call"
    /\ watch_aave = FALSE
    /\ first_run = TRUE
    /\ seen = [t \in TransferTypes |-> {}]
    /\ aave_seen = {}
    /\ aave_from_block = 0
    /\ chan = "none"
    /\ fetched = None
    /\ alerts = <<>>
    /\ explorer = [live |-> {}, records |-> "run"]
    /\ track = NoTrack
    /\ trackStartup = FALSE
    /\ trackAlerted = FALSE

\* The raw values: the non-negative integers of up to MaxRawLen digits.
RawValues ==
    {r \in SeqsUpTo({"0", "1", "5"}, MaxRawLen) : Len(r) > 0 /\ (Len(r) > 1 => r[1] # "0")}

\* The decimals fields: a count of decimals, or nothing int() can read.
TokenDecimals ==
    {Str(IntStr(d)) : d \in 0..MaxDecimals} \cup {Str(<<"1", "8">>), Str(<<>>), Str(<<"x">>), None}

InitFormat ==
    /\ InitCall
    /\ call \in {[fn |-> "format_token_amount", raw_value |-> r, token_decimal |-> d,
                  returned |-> FALSE, result |-> <<>>] : r \in RawValues, d \in TokenDecimals}

FormatCall ==
    /\ call.fn = "format_token_amount"
    /\ ~call.returned
    /\ call' = [call EXCEPT !.returned = TRUE,
                            !.result = format_token_amount(call.raw_value, call.token_decimal)]
    /\ UNCHANGED <<pc, watch_aave, first_run, seen, aave_seen, aave_from_block,
                   chan, fetched, alerts, explorer, track, trackStartup, trackAlerted>>

SpecFormat == InitFormat /\ [][FormatCall]_vars

----------------------------------------------------------------------------
(* decode_supply_event, lines 189-212 *)

\* log.get(key, default): a field the log lacks is None in the model
LogGet(log, key, default) == IF log[key] = None THEN default ELSE log[key].list

\* s[a:b] of Python, a <= b
Slice(s, a, b) ==
    LET hi == IF b < Len(s) THEN b ELSE Len(s)
    IN  IF a >= hi THEN <<>> ELSE SubSeq(s, a + 1, hi)

\* int(s, 16) of a string of hex digits with or without the 0x prefix
HexInt(s) ==
    IF Len(s) >= 2 /\ s[1] = "0" /\ s[2] = "x" THEN ParseInt(Slice(s, 2, Len(s)), 16)
    ELSE ParseInt(s, 16)

\* sender is what get_tx_sender returns for the transaction, an address or None
decode_supply_event(log, sender) ==
    LET data == LogGet(log, "data", <<"0", "x">>)
        tx_hash == LogGet(log, "transactionHash", <<>>)
        user == IF Len(data) >= 66 THEN Str(<<"0", "x">> \o Slice(data, 26, 66))
                ELSE Str(<<"u", "n", "k", "n", "o", "w", "n">>)
        amount_wei == IF Len(data) >= 130 THEN HexInt(Slice(data, 66, 130)) ELSE 0
        amount_display == format_token_amount(IntStr(amount_wei), Str(<<"1", "8">>))
    IN  [tx_hash |-> tx_hash,
         block_number |-> HexInt(LogGet(log, "blockNumber", <<"0", "x", "0">>)),
         sender |-> IF Len(tx_hash) > 0 THEN sender ELSE None,
         user |-> user,
         amount_display |-> amount_display]

\* The first n characters of a Supply payload: 0x, the user word (an address
\* of one repeated digit) and the amount word (a one-byte amount), then zeros.
Payload(n, fill, amount) ==
    [i \in 1..n |-> IF i = 1 THEN "0"
                    ELSE IF i = 2 THEN "x"
                    ELSE IF i >= 27 /\ i <= 66 THEN fill
                    ELSE IF i = 129 \/ i = 130 THEN amount[i - 128]
                    ELSE "0"]

Payloads ==
    {Payload(n, fill, amount) : n \in 0..MaxData, fill \in {"0", "a"},
                                amount \in {<<"0", "0">>, <<"0", "1">>, <<"f", "f">>}}

Logs ==
    {[data |-> d, transactionHash |-> h, blockNumber |-> b] :
        d \in {None} \cup {Str(x) : x \in Payloads},
        h \in {None, Str(<<>>), Str(<<"A">>)},
        b \in {None, Str(<<"0", "x", "1", "0">>)}}

InitDecode ==
    /\ InitCall
    /\ call \in {[fn |-> "decode_supply_event", log |-> l, sender |-> sender,
                  returned |-> FALSE, result |-> <<>>] :
                    l \in Logs, sender \in {None, Str(<<"0", "x", "b">>)}}

DecodeCall ==
    /\ call.fn = "decode_supply_event"
    /\ ~call.returned
    /\ call' = [call EXCEPT !.returned = TRUE,
                            !.result = decode_supply_event(call.log, call.sender)]
    /\ UNCHANGED <<pc, watch_aave, first_run, seen, aave_seen, aave_from_block,
                   chan, fetched, alerts, explorer, track, trackStartup, trackAlerted>>

SpecDecode == InitDecode /\ [][DecodeCall]_vars

----------------------------------------------------------------------------
(* Properties *)

SeenOf(c) == IF c = "AAVE" THEN aave_seen ELSE seen[c]

\* The identifiers of a successful query's surviving results.
Survivors(c, list) ==
    IF c = "AAVE" THEN LogHashes(list) ELSE HashesOf(filter_incoming(list, c))

AlertHashes(as) == {as[i].hash : i \in DOMAIN as}

\* The step polls a channel: chan' is that channel.
PollStep == pc \in Channels

\* C1: in the seeding phase a successful query of a channel emits no alert
\* and leaves every surviving identifier in that channel's Seen Set; and no
\* step of the seeding phase emits an alert or takes an identifier out of a
\* Seen Set, so the identifiers are still there when the round ends.
SeedingSilentAndSeen ==
    [][first_run =>
         /\ alerts' = <<>>
         /\ \A c \in Channels : SeenOf(c) \subseteq SeenOf(c)'
         /\ (PollStep /\ fetched'.tag = "list") =>
                Survivors(pc, fetched'.list) \subseteq SeenOf(chan)']_vars

SeededTwo ==
    /\ first_run /\ chan = "ETH" /\ fetched.tag = "list"
    /\ Cardinality(Survivors("ETH", fetched.list)) = 2
    /\ Survivors("ETH", fetched.list) = seen["ETH"]

\* C2: an event that was in the explorer's window of its channel when the
\* first round ran is never alerted on.
StartupNeverAlerted == ~(trackStartup /\ track \in AlertedPairs(alerts))

\* C3 as stated: no (category, hash) pair is alerted twice, over any sequence
\* of rounds.
NeverAlertedTwice == ~(trackAlerted /\ track \in AlertedPairs(alerts))

\* C3 as amended: a round alerts on no identifier that is in the channel's
\* Seen Set when the round starts, and on no identifier twice.
NoAlertWhileSeen ==
    [][PollStep =>
         /\ AlertHashes(alerts') \cap SeenOf(pc) = {}
         /\ Cardinality(AlertHashes(alerts')) = Len(alerts')
         /\ \A i \in DOMAIN alerts' : alerts'[i].kind = pc]_vars

SeenAgainSilently ==
    /\ ~first_run /\ chan \in Channels /\ fetched.tag = "list"
    /\ trackAlerted /\ track[1] = chan
    /\ track[2] \in Survivors(chan, fetched.list)
    /\ alerts = <<>>

\* The position of the first record with hash h.
FirstIndex(list, h) ==
    CHOOSE i \in DOMAIN list : list[i].hash = h /\ \A j \in 1..(i - 1) : list[j].hash # h

\* C4: a steady round of a transfer channel emits exactly one alert per
\* distinct surviving identifier that is not in the Seen Set at its start,
\* in the reverse of the query order.
SteadyAlertsNewOldestFirst ==
    [][(pc \in TransferTypes /\ ~first_run /\ fetched'.tag = "list") =>
         LET incoming == filter_incoming(fetched'.list, pc)
             newIds == HashesOf(incoming) \ seen[pc]
         IN  /\ Len(alerts') = Cardinality(newIds)
             /\ AlertHashes(alerts') = newIds
             /\ \A i \in DOMAIN alerts' : alerts'[i].kind = pc
             /\ \A i \in 1..(Len(alerts') - 1) :
                    FirstIndex(incoming, alerts'[i].hash)
                        > FirstIndex(incoming, alerts'[i + 1].hash)
             /\ seen'[pc] \in {seen[pc] \cup newIds, HashesOf(incoming)}]_vars

TwoAlertsReversed ==
    /\ ~first_run /\ chan = "TOKEN" /\ fetched.tag = "list"
    /\ Len(fetched.list) = 2 /\ Len(alerts) = 2
    /\ alerts[1].hash = fetched.list[2].hash
    /\ alerts[2].hash = fetched.list[1].hash

\* C5: every channel's Seen Set holds at most MAX_SEEN_HASHES identifiers
\* after each round of the channel.
SeenBounded == \A c \in Channels : Cardinality(SeenOf(c)) <= MAX_SEEN_HASHES

ForgottenByReset ==
    /\ pc = "sleep" /\ trackAlerted
    /\ track[2] \notin SeenOf(track[1])
    /\ Cardinality(SeenOf(track[1])) = MAX_SEEN_HASHES

\* C6: the block cursor never decreases; a failed query and an empty result
\* leave it unchanged.
CursorNeverDecreases ==
    [][/\ aave_from_block' >= aave_from_block
       /\ (pc = "AAVE" /\ (fetched'.tag # "list" \/ fetched'.list = <<>>)) =>
              aave_from_block' = aave_from_block]_vars

OlderLogsOnly ==
    /\ chan = "AAVE" /\ fetched.tag = "list" /\ Len(fetched.list) > 0
    /\ \A i \in DOMAIN fetched.list :
          ParseInt(fetched.list[i].blockNumber, 16) < aave_from_block

\* C7: a round in which the channel's fetch returns None changes no Seen Set
\* and not the block cursor, and emits no alert.
FailureChangesNothing ==
    [][(PollStep /\ fetched' = None) =>
         /\ alerts' = <<>>
         /\ seen' = seen
         /\ aave_seen' = aave_seen
         /\ aave_from_block' = aave_from_block]_vars

FailedWithSeen ==
    /\ ~first_run /\ chan = "ETH" /\ fetched = None
    /\ seen["ETH"] # {}

\* C8: a round in which the channel's fetch returns the empty list emits no
\* alert and leaves the Seen Sets as they were.
EmptyChangesNothing ==
    [][(PollStep /\ fetched' = List(<<>>)) =>
         /\ alerts' = <<>>
         /\ seen' = seen
         /\ aave_seen' = aave_seen]_vars

EmptyWithFullSeen ==
    /\ ~first_run /\ chan = "ETH" /\ fetched = List(<<>>)
    /\ Cardinality(seen["ETH"]) = MAX_SEEN_HASHES

\* C9: the poll loop has no fatal path: whatever the queries return, the
\* monitor never ends other than by the interrupt.
NoFatalPath == pc # "crashed"

SameIgnoringCase(a, b) ==
    /\ Len(a) = Len(b)
    /\ \A i \in DOMAIN a :
          \/ a[i] = b[i]
          \/ {a[i], b[i]} \in {{"a", "A"}, {"b", "B"}, {"c", "C"}}

\* The transfers C10 says are kept.
Kept(tx, transfer_type) ==
    /\ SameIgnoringCase(tx.to, address)
    /\ transfer_type = "ETH" => (tx.isError # "1" /\ tx.value # <<"0">>)

KeptOf(list, transfer_type) ==
    LET Test(tx) == Kept(tx, transfer_type) IN SelectSeq(list, Test)

\* C10: filter_incoming keeps exactly the transfers to the monitored address
\* (compared without case), for ETH without those with isError "1" or value
\* "0"; a round alerts on and adds to the Seen Set kept transfers only.
FilterKeepsIncoming ==
    [][(pc \in TransferTypes /\ fetched'.tag = "list") =>
         LET kept == KeptOf(fetched'.list, pc)
         IN  /\ filter_incoming(fetched'.list, pc) = kept
             /\ AlertHashes(alerts') \subseteq HashesOf(kept)
             /\ (seen'[pc] \ seen[pc]) \subseteq HashesOf(kept)]_vars

DroppedAndKept ==
    /\ ~first_run /\ chan = "ETH" /\ fetched.tag = "list" /\ Len(fetched.list) = 2
    /\ SameIgnoringCase(fetched.list[1].to, address)
    /\ fetched.list[1].isError = "0" /\ fetched.list[1].value = <<"0">>
    /\ fetched.list[1].hash \notin seen["ETH"]
    /\ Kept(fetched.list[2], "ETH")
    /\ Len(alerts) = 1 /\ alerts[1].hash = fetched.list[2].hash

\* C11: decoding a log whose data payload is shorter than 130 characters
\* yields amount 0 and beneficiary "unknown", whatever the length below 130.
ShortPayloadDegrades ==
    (call.fn = "decode_supply_event" /\ call.returned
        /\ Len(LogGet(call.log, "data", <<"0", "x">>)) < 130)
    => /\ call.result.amount_display = <<"0">>
       /\ call.result.user = Str(<<"u", "n", "k", "n", "o", "w", "n">>)

\* The plain decimal string of raw / 10^decimals: the integer part, then the
\* point and the fraction unless the fraction is zero, no trailing zeros.
PlainDecimal(raw, decimals) ==
    LET padded == IF Len(raw) > decimals THEN raw ELSE Zeros(decimals + 1 - Len(raw)) \o raw
        whole == SubSeq(padded, 1, Len(padded) - decimals)
        fraction == SubSeq(padded, Len(padded) - decimals + 1, Len(padded))
        kept == DropLast(fraction, TrailingZeros(fraction))
    IN  IF Len(kept) = 0 THEN whole ELSE whole \o <<".">> \o kept

\* C12: format_token_amount returns the plain decimal string of
\* raw / 10^decimals for decimals > 0 (18 when the decimals field cannot be
\* read as an integer), and the raw value unchanged for decimals = 0.
FormatsPlainDecimal ==
    (call.fn = "format_token_amount" /\ call.returned)
    => LET decimals == IF IntParses(call.token_decimal)
                       THEN ParseInt(call.token_decimal.list, 10) ELSE 18
       IN  call.result = IF decimals = 0 THEN call.raw_value
                         ELSE PlainDecimal(call.raw_value, decimals)

\* The last channel a round polls.
LastChannel == IF watch_aave THEN "AAVE" ELSE "NFT"

\* C13: the run starts in the seeding phase; the phase changes only in the
\* step that ends a round, after the last enabled channel was processed,
\* and only from seeding to steady; once steady it stays steady, the end of
\* a later round changes nothing.
RunPhaseOneWay ==
    /\ [](pc \in {"start", "sleep", "stopped"} => (first_run <=> pc = "start"))
    /\ [][/\ first_run' # first_run => pc = "end" /\ chan = LastChannel
          /\ pc = "end" => ~first_run'
          /\ ~first_run => ~first_run']_vars

\* A later round is about to end, in the steady phase.
SteadyRoundEnding == ~first_run /\ pc = "end" /\ chan = LastChannel /\ fetched.tag = "list"

\* The identifiers a successful round of channel c adds to the set s: those
\* of the surviving results, but for a steady log round the empty one.
AddedTo(c, first, s, list) ==
    IF c = "AAVE" /\ ~first THEN s \cup (LogHashes(list) \ {""})
    ELSE s \cup Survivors(c, list)

\* C14: in a round whose query succeeded, if the Seen Set with the round's
\* identifiers added has more than MAX_SEEN_HASHES entries, the set is at
\* the end exactly the identifiers of the round's surviving results;
\* otherwise it is the set with the identifiers added, nothing taken out.
BoundedSetReset ==
    [][(PollStep /\ fetched'.tag = "list") =>
         LET grown == AddedTo(pc, first_run, SeenOf(pc), fetched'.list)
         IN  IF Cardinality(grown) > MAX_SEEN_HASHES
             THEN SeenOf(chan)' = Survivors(pc, fetched'.list)
             ELSE SeenOf(chan)' = grown /\ SeenOf(pc) \subseteq SeenOf(chan)']_vars

\* A reset has just replaced the set by the round's window: the followed
\* identifier, alerted before, is no longer in it.
ResetToWindow ==
    /\ chan = track[1] /\ fetched.tag = "list" /\ trackAlerted
    /\ Len(alerts) > 0
    /\ track[2] \notin SeenOf(chan)
    /\ SeenOf(chan) = Survivors(chan, fetched.list)

\* C14 as stated: the empty hash of a log counts among the identifiers the
\* round adds.
BoundedSetResetEveryIdentifier ==
    [][(PollStep /\ fetched'.tag = "list") =>
         LET grown == SeenOf(pc) \cup Survivors(pc, fetched'.list)
         IN  IF Cardinality(grown) > MAX_SEEN_HASHES
             THEN SeenOf(chan)' = Survivors(pc, fetched'.list)
             ELSE SeenOf(pc) \subseteq SeenOf(chan)']_vars

\* The position of the first log with transaction hash h.
FirstLog(logs, h) ==
    CHOOSE i \in DOMAIN logs :
        logs[i].transactionHash = h /\ \A j \in 1..(i - 1) : logs[j].transactionHash # h

\* C15: a steady round of the Aave channel emits exactly one alert per
\* distinct non-empty transaction hash that is not in the Aave Seen Set at
\* its start, in query order, and the alerted hashes are in the set
\* afterwards; no round emits an alert for a log with an empty hash.
SteadyLogAlertsInQueryOrder ==
    [][/\ \A i \in DOMAIN alerts' : alerts'[i].hash # ""
       /\ (pc = "AAVE" /\ ~first_run /\ fetched'.tag = "list") =>
            LET logs == fetched'.list
                newIds == (LogHashes(logs) \ {""}) \ aave_seen
            IN  /\ Len(alerts') = Cardinality(newIds)
                /\ AlertHashes(alerts') = newIds
                /\ \A i \in DOMAIN alerts' : alerts'[i].kind = "AAVE"
                /\ \A i \in 1..(Len(alerts') - 1) :
                       FirstLog(logs, alerts'[i].hash) < FirstLog(logs, alerts'[i + 1].hash)
                /\ newIds \subseteq aave_seen']_vars

TwoLogAlertsInOrder ==
    /\ ~first_run /\ chan = "AAVE" /\ fetched.tag = "list"
    /\ Len(fetched.list) = 2 /\ Len(alerts) = 2
    /\ alerts[1].hash = fetched.list[1].transactionHash
    /\ alerts[2].hash = fetched.list[2].transactionHash

Max(a, b) == IF a >= b THEN a ELSE b

\* The block numbers of a round's logs.
BlocksOf(logs) == {ParseInt(logs[i].blockNumber, 16) : i \in DOMAIN logs}

\* C16: the block cursor starts at max(0, latest block - lookback) when the
\* latest-block lookup gives a number and at 0 when it does not; a
\* successful log round, seeding or steady, leaves it at the maximum of its
\* previous value and the block numbers of the round's logs; and it changes
\* in no other step, so it is always its initial value or a block number of
\* some log of a result.
CursorFollowsLogs ==
    [][/\ (pc = "start" /\ watch_aave) =>
            aave_from_block' = IF fetched'.tag = "int"
                               THEN Max(0, fetched'.list[1] - AAVE_LOOKBACK_BLOCKS)
                               ELSE 0
       /\ (pc = "AAVE" /\ fetched'.tag = "list") =>
            \A m \in {aave_from_block} \cup BlocksOf(fetched'.list) :
                (\A n \in {aave_from_block} \cup BlocksOf(fetched'.list) : m >= n)
                    => aave_from_block' = m
       /\ (pc # "start" /\ aave_from_block' # aave_from_block) =>
            pc = "AAVE" /\ fetched'.tag = "list"
                /\ aave_from_block' \in BlocksOf(fetched'.list)]_vars

\* The cursor has left every possible initial value for the block of a log.
CursorAtLogBlock ==
    /\ chan = "AAVE" /\ fetched.tag = "list"
    /\ aave_from_block > MaxBlock - AAVE_LOOKBACK_BLOCKS
    /\ aave_from_block \in BlocksOf(fetched.list)

\* The channel queried after channel c in a round, "end" after the last.
Successor(c) ==
    CASE c = "ETH" -> "TOKEN"
      [] c = "TOKEN" -> "NFT"
      [] c = "NFT" -> IF watch_aave THEN "AAVE" ELSE "end"
      [] c = "AAVE" -> "end"

\* C17: a round queries the enabled channels once each in the order ETH,
\* TOKEN, NFT, Aave: however the query of a channel ends, the step makes
\* that one query and the next enabled channel is queried next, the round
\* ends after the last one, and the next round starts again at ETH.
OneQueryPerChannelInOrder ==
    [][/\ PollStep => chan' = pc /\ pc' = Successor(pc)
       /\ pc = "end" => pc' = "sleep"
       /\ pc = "sleep" => pc' \in {"ETH", "stopped"}]_vars

\* C18: a step that polls one channel leaves the Seen Set of every other
\* channel as it was, and a steady round of a transfer channel alerts every
\* surviving identifier that is not in that channel's own Seen Set, whatever
\* the other channels' sets hold.
ChannelsIndependent ==
    [][PollStep =>
         /\ \A c \in Channels \ {pc} : SeenOf(c)' = SeenOf(c)
         /\ (pc \in TransferTypes /\ ~first_run /\ fetched'.tag = "list") =>
                Survivors(pc, fetched'.list) \ seen[pc] \subseteq AlertHashes(alerts')]_vars

\* A hash in the ETH Seen Set is alerted as new in the TOKEN category.
SeenElsewhereAlerted ==
    /\ chan = "TOKEN" /\ ~first_run
    /\ \E i \in DOMAIN alerts :
          alerts[i].kind = "TOKEN" /\ alerts[i].hash \in seen["ETH"]

\* C19: while watch_aave is false the monitor looks up no latest block and
\* queries no logs, emits no supply alert, and the Aave Seen Set stays empty
\* and the cursor 0; and what a round of a transfer channel emits and leaves
\* in the channel's Seen Set is fixed by the phase, the set and the query's
\* result alone, the same with watch_aave true or false.
AaveOffIsInert ==
    /\ [](~watch_aave =>
            /\ aave_seen = {} /\ aave_from_block = 0
            /\ pc # "AAVE" /\ chan # "AAVE" /\ fetched.tag # "int"
            /\ \A i \in DOMAIN alerts : alerts[i].kind # "AAVE")
    /\ [][/\ (pc = "start" /\ ~watch_aave) => fetched' = fetched
          /\ (pc \in TransferTypes /\ fetched'.tag # "list") =>
                alerts' = <<>> /\ seen' = seen
          /\ (pc \in TransferTypes /\ fetched'.tag = "list") =>
                LET ids == Survivors(pc, fetched'.list)
                    grown == seen[pc] \cup ids
                    newIds == IF first_run THEN {} ELSE ids \ seen[pc]
                IN  /\ seen' = [seen EXCEPT ![pc] =
                                  IF Cardinality(grown) > MAX_SEEN_HASHES THEN ids ELSE grown]
                    /\ Len(alerts') = Cardinality(newIds)
                    /\ AlertedPairs(alerts') = {<<pc, h>> : h \in newIds}
                    /\ \A i \in 1..(Len(alerts') - 1) :
                          FirstIndex(filter_incoming(fetched'.list, pc), alerts'[i].hash)
                            > FirstIndex(filter_incoming(fetched'.list, pc), alerts'[i + 1].hash)]_vars

\* A steady round without the Aave channel ends after an NFT alert.
RoundEndsAfterNft ==
    /\ ~watch_aave /\ ~first_run /\ pc = "end" /\ chan = "NFT" /\ Len(alerts) > 0

\* C20 as stated: after a round of a channel whose query succeeded, every
\* identifier of the surviving results, the empty hash of a log included, is
\* in the channel's Seen Set.
WindowSeenAfterRound ==
    [][(PollStep /\ fetched'.tag = "list") =>
         Survivors(pc, fetched'.list) \subseteq SeenOf(chan)']_vars

\* C20 as amended: after a round of a channel whose query succeeded, seeding
\* or steady, reset or not, every non-empty identifier of the surviving
\* results is in the channel's Seen Set; the set is not touched until the
\* channel is polled again; and a round whose surviving results carry only
\* identifiers of the set (or none) emits no alert.
WindowSeenThenSilent ==
    [][/\ (PollStep /\ fetched'.tag = "list") =>
            Survivors(pc, fetched'.list) \ {""} \subseteq SeenOf(chan)'
       /\ \A c \in Channels : (~PollStep \/ pc # c) => SeenOf(c)' = SeenOf(c)
       /\ (PollStep /\ fetched'.tag = "list"
              /\ Survivors(pc, fetched'.list) \ {""} \subseteq SeenOf(pc)) =>
            alerts' = <<>>]_vars

\* The identifier of the first round's window is the whole window of a later
\* round, which passes in silence.
SeededWindowRepeated ==
    /\ ~first_run /\ chan = track[1] /\ fetched.tag = "list"
    /\ trackStartup
    /\ Survivors(chan, fetched.list) = {track[2]}
    /\ track[2] \in SeenOf(chan)
    /\ alerts = <<>>

====
